---- MODULE Spec2Model ----
(***************************************************************************)
(* Model of tech_automator.py: the TechNewsAutomator pipeline run by       *)
(* main() (create_new_page, update_styles, update_index, commit_and_push)  *)
(* and the stand-alone get_tech_news.                                      *)
(*                                                                         *)
(* Python strings that the code formats, slices or compares are sequences  *)
(* of one-character strings, so lower(), title(), replace(), split(),      *)
(* strftime() and the lexical sort are computed character by character.    *)
(* An HTML document is the sequence of its elements in document order;     *)
(* BeautifulSoup.find is "first element that matches".                     *)
(*                                                                         *)
(* update_index ends by calling self.write_index_page, which the class     *)
(* does not define: on a TechNewsAutomator that call raises AttributeError *)
(* and main() ends there (Spec). SpecIndex calls update_index on an object *)
(* that was given a write_index_page, taken from the specification's       *)
(* section 4.6: it regenerates index.html with the entries it is given.    *)
(* SpecRun is main() on either object, so that its runs include those that *)
(* get to commit_and_push. SpecPublish and SpecNews call commit_and_push   *)
(* and get_tech_news on their own.                                         *)
(***************************************************************************)
EXTENDS Integers, Sequences, FiniteSets, TLC

\* ------------------------------------------------------------------ bounds
\* Largest number of article files already in the output directory.
MaxFiles == 15
\* Longest 'articles' array in a headlines response.
MaxArticles == 6
\* How many colours of the palette update_styles' choice is explored over.
MaxColors == 2
\* How many of the commit verbs commit_and_push's choice is explored over.
MaxVerbs == 2

\* ------------------------------------------------------- program constants
\* articles[:10] in update_index.
IndexLimit == 10
\* [:5] in get_tech_news.
NewsLimit == 5

\* ------------------------------------------------------------- characters
UpperCase ==
  << "A","B","C","D","E","F","G","H","I","J","K","L","M",
     "N","O","P","Q","R","S","T","U","V","W","X","Y","Z" >>

LowerCase ==
  << "a","b","c","d","e","f","g","h","i","j","k","l","m",
     "n","o","p","q","r","s","t","u","v","w","x","y","z" >>

Digits == << "0","1","2","3","4","5","6","7","8","9" >>

\* The characters that occur, in code-point order (str comparison order).
AsciiOrder == << " ", "-", "." >> \o Digits \o UpperCase \o LowerCase

IndexIn(c, s) == CHOOSE i \in DOMAIN s : s[i] = c

InSeq(c, s) == \E i \in DOMAIN s : s[i] = c

Ord(c) == IndexIn(c, AsciiOrder)

IsCased(c) == InSeq(c, UpperCase) \/ InSeq(c, LowerCase)

LowerChar(c) == IF InSeq(c, UpperCase) THEN LowerCase[IndexIn(c, UpperCase)] ELSE c

UpperChar(c) == IF InSeq(c, LowerCase) THEN UpperCase[IndexIn(c, LowerCase)] ELSE c

\* str.lower()
Lower(s) == [i \in DOMAIN s |-> LowerChar(s[i])]

\* str.replace(old, new) for one-character old and new
Replace(s, old, new) == [i \in DOMAIN s |-> IF s[i] = old THEN new ELSE s[i]]

\* str.title(): a cased character is upper-cased when it starts a word
\* (the character before it is not cased) and lower-cased otherwise.
TitleCase(s) ==
  [i \in DOMAIN s |->
     IF i = 1 \/ ~IsCased(s[i-1]) THEN UpperChar(s[i]) ELSE LowerChar(s[i])]

\* str < str: code-point lexical order, a proper prefix is smaller.
RECURSIVE StrLessFrom(_, _, _)
StrLessFrom(a, b, i) ==
  IF i > Len(b) THEN FALSE
  ELSE IF i > Len(a) THEN TRUE
  ELSE IF a[i] = b[i] THEN StrLessFrom(a, b, i + 1)
  ELSE Ord(a[i]) < Ord(b[i])

StrLess(a, b) == StrLessFrom(a, b, 1)

EndsWith(s, suf) ==
  /\ Len(s) >= Len(suf)
  /\ SubSeq(s, Len(s) - Len(suf) + 1, Len(s)) = suf

\* Position of the last occurrence of c in s, 0 when there is none.
LastIndexOf(s, c) ==
  IF InSeq(c, s) THEN CHOOSE i \in DOMAIN s :
                         s[i] = c /\ \A j \in (i+1)..Len(s) : s[j] # c
                 ELSE 0

\* pathlib PurePath.stem: the name without its last suffix; a leading dot or
\* a trailing dot does not start a suffix.
Stem(name) ==
  LET i == LastIndexOf(name, ".")
  IN  IF i > 1 /\ i < Len(name) THEN SubSeq(name, 1, i - 1) ELSE name

\* s.split('-')[-1]: what follows the last '-', all of s when there is none.
LastSegment(s) == SubSeq(s, LastIndexOf(s, "-") + 1, Len(s))

\* ------------------------------------------------------------------ dates
\* strftime('%Y%m%d') of a date [y, m, d] with a four-digit year.
Digit(n) == Digits[n + 1]

Strftime(d) ==
  << Digit(d.y \div 1000), Digit((d.y \div 100) % 10),
     Digit((d.y \div 10) % 10), Digit(d.y % 10),
     Digit(d.m \div 10), Digit(d.m % 10),
     Digit(d.d \div 10), Digit(d.d % 10) >>


\* --------------------------------------------------------------- literals
DotHtml == << ".","h","t","m","l" >>

IndexName == << "i","n","d","e","x",".","h","t","m","l" >>

StyleName == << "s","t","y","l","e",".","c","s","s" >>

\* topics in create_new_page
Topics ==
  << << "A","I" >>,
     << "C","y","b","e","r","s","e","c","u","r","i","t","y" >>,
     << "C","l","o","u","d"," ","C","o","m","p","u","t","i","n","g" >>,
     << "M","o","b","i","l","e"," ","T","e","c","h" >>,
     << "G","a","m","i","n","g" >> >>

\* the page types create_new_page chooses from
PageTypes ==
  << << "t","u","t","o","r","i","a","l" >>,
     << "n","e","w","s" >>,
     << "a","n","a","l","y","s","i","s" >>,
     << "r","e","v","i","e","w" >>,
     << "c","o","m","p","a","r","i","s","o","n" >> >>

\* colors in update_styles
Colors ==
  << "#1a73e8", "#ea4335", "#34a853", "#fbbc05", "#0a66c2",
     "#00a0dc", "#313335", "#1da1f2", "#14171a", "#657786" >>

\* commit_types in commit_and_push
CommitTypes ==
  << << "U","p","d","a","t","e" >>,
     << "A","d","d" >>,
     << "R","e","v","i","s","e" >>,
     << "I","m","p","r","o","v","e" >>,
     << "E","n","h","a","n","c","e" >> >>

Range(s) == {s[i] : i \in DOMAIN s}

\* -------------------------------------------------------------- documents
\* One element of a parsed document: its tag, its name attribute ("" when
\* it has none), whether it has a content attribute and its value, its text
\* and its href.
Elem(tag, name, hasContent, content, text, href) ==
  [tag |-> tag, name |-> name, hasContent |-> hasContent,
   content |-> content, text |-> text, href |-> href]

Meta(name, content) == Elem("meta", name, TRUE, content, << >>, << >>)

H1(text) == Elem("h1", "", FALSE, << >>, text, << >>)

\* The description meta tag of write_page's template.
Description(page_type, topic) ==
  << "L","a","t","e","s","t"," " >> \o page_type \o << " ","a","b","o","u","t"," " >> \o topic \o << " ","i","n"," ","t","e","c","h" >>

\* The <h1> of write_page's template.
Heading(page_type, topic) == topic \o << " " >> \o page_type

\* write_page's template, the elements in document order: the three meta
\* tags, the title, the <h1>, then the generated content as it came.
PageBody(content, page_type, topic) ==
  << Elem("meta", "", FALSE, << >>, << >>, << >>),
     Meta("viewport", << >>),
     Meta("description", Description(page_type, topic)),
     Elem("title", "", FALSE, << >>, Heading(page_type, topic) \o << " ","-"," ","T","e","c","h","D","a","i","l","y" >>, << >>),
     H1(Heading(page_type, topic)) >> \o content

File(name, body) == [name |-> name, body |-> body]

\* open(path, 'w') + write: the file replaces one of the same name.
WriteFile(d, f) ==
  IF \E i \in DOMAIN d : d[i].name = f.name
  THEN [i \in DOMAIN d |-> IF d[i].name = f.name THEN f ELSE d[i]]
  ELSE Append(d, f)

write_page(d, filename, content, page_type, topic) ==
  WriteFile(d, File(filename, PageBody(content, page_type, topic)))

FileNameNoLower(page_type, topic, today) ==
  page_type \o << "-" >> \o Replace(topic, " ", "-") \o << "-" >>
            \o Strftime(today) \o DotHtml

\* The filename create_new_page builds.
FileName(page_type, topic, today) ==
  page_type \o << "-" >> \o Replace(Lower(topic), " ", "-") \o << "-" >>
            \o Strftime(today) \o DotHtml

\* update_styles' stylesheet: the template with its accent colour.
StyleFile(color) ==
  File(StyleName, << Elem("css", color, FALSE, << >>, << >>, << >>) >>)


\* ----------------------------------------------------------- update_index
\* Path(repo_path).glob('*.html'): the names that end in .html.
GlobHtml(name) == EndsWith(name, DotHtml)

QualifiesAll(f) == GlobHtml(f.name)

\* The files update_index opens: globbed, and not named index.html.
Qualifies(f) == GlobHtml(f.name) /\ f.name # IndexName

\* Whether element e has the tag and, when attrs names one, the name
\* attribute soup.find asks for (attrs = "" asks for none).
Matches(e, tag, attrs) == e.tag = tag /\ (attrs = "" \/ e.name = attrs)

\* soup.find(tag, {'name': attrs}): position of the first element that
\* matches, 0 for None.
FindFirst(body, tag, attrs) ==
  IF \E i \in DOMAIN body : Matches(body[i], tag, attrs)
  THEN CHOOSE i \in DOMAIN body :
         /\ Matches(body[i], tag, attrs)
         /\ \A j \in 1..(i-1) : ~Matches(body[j], tag, attrs)
  ELSE 0

\* The body of update_index's loop for one file: the entry it appends, or
\* the error it raises and the line that raises it (no <h1>: None.text at
\* 57; no description meta: None['content'] at 58; a description meta
\* without content: KeyError at 58).
ParseArticle(f) ==
  LET h == FindFirst(f.body, "h1", "")
      m == FindFirst(f.body, "meta", "description")
  IN  IF h = 0 THEN [err |-> "AttributeError", line |-> 57]
      ELSE IF m = 0 THEN [err |-> "TypeError", line |-> 58]
      ELSE IF ~f.body[m].hasContent THEN [err |-> "KeyError", line |-> 58]
      ELSE [err |-> "none", line |-> 0,
            entry |-> [title |-> f.body[h].text, file |-> f.name,
                       date |-> LastSegment(Stem(f.name)),
                       summary |-> f.body[m].content]]

Parses(f) == ParseArticle(f).err = "none"

ParseAllSkipping(files) ==
  LET good == SelectSeq(files, Parses)
  IN  {[err |-> "none", line |-> 0,
        entries |-> [i \in DOMAIN good |-> ParseArticle(good[i]).entry]]}

\* update_index's loop, over every order in which glob may yield the files
\* (the code does not control it): when some file raises, the loop ends
\* with the error of the first such file it meets, which may be any of
\* them, and the list built so far is lost with the frame; when none does,
\* every file's entry is collected.
ParseAll(files) ==
  LET bad == {i \in DOMAIN files : ParseArticle(files[i]).err # "none"}
  IN  IF bad # {}
      THEN {[err |-> ParseArticle(files[i]).err, line |-> ParseArticle(files[i]).line,
             entries |-> << >>] : i \in bad}
      ELSE {[err |-> "none", line |-> 0,
             entries |-> [i \in DOMAIN files |-> ParseArticle(files[i]).entry]]}

\* Stable insertion into a list sorted by date descending: after every
\* entry whose date is not smaller.
InsertDesc(sorted, x) ==
  LET k == Cardinality({i \in DOMAIN sorted : ~StrLess(sorted[i].date, x.date)})
  IN  SubSeq(sorted, 1, k) \o << x >> \o SubSeq(sorted, k + 1, Len(sorted))

RECURSIVE SortDesc(_, _)
SortDesc(todo, sorted) ==
  IF todo = << >> THEN sorted
  ELSE SortDesc(Tail(todo), InsertDesc(sorted, Head(todo)))

\* articles.sort(key=lambda x: x['date'], reverse=True): stable, entries of
\* equal date keep the order they were collected in.
SortByDateDesc(list) == SortDesc(list, << >>)

RECURSIVE Perms(_)
\* Every order of the elements of s.
Perms(s) ==
  IF s = << >> THEN {<< >>}
  ELSE UNION {{<< s[i] >> \o q :
                 q \in Perms(SubSeq(s, 1, i - 1) \o SubSeq(s, i + 1, Len(s)))} :
              i \in DOMAIN s}

RECURSIVE TieOrders(_)
\* The lists the stable sort can give when the files come in any order:
\* the sorted list with each run of equal dates in every order.
TieOrders(sorted) ==
  IF sorted = << >> THEN {<< >>}
  ELSE LET k == Cardinality({i \in DOMAIN sorted : sorted[i].date = sorted[1].date})
       IN  {run \o rest : run \in Perms(SubSeq(sorted, 1, k)),
                          rest \in TieOrders(SubSeq(sorted, k + 1, Len(sorted)))}

TruncateNone(list) == list

\* articles[:10]
Truncate(list) == SubSeq(list, 1, IF Len(list) < IndexLimit THEN Len(list) ELSE IndexLimit)

\* write_index_page: the index page lists the entries it is given, in
\* order, each as a link to the file with the title and the summary.
IndexBody(entries) ==
  [i \in DOMAIN entries |->
     Elem("a", "", TRUE, entries[i].summary, entries[i].title, entries[i].file)]

write_index_page(d, entries) == WriteFile(d, File(IndexName, IndexBody(entries)))

Reverse(s) == [i \in DOMAIN s |-> s[Len(s) + 1 - i]]

\* ------------------------------------------------------------------- git
WorkTree(d) == Range(d)

GitCmd(cmd, ok) == [cmd |-> cmd, ok |-> ok]

GitRunPushAnyway(tree, hd, rem, accepted) ==
  IF tree = hd
  THEN [cmds |-> << GitCmd("add", TRUE), GitCmd("commit", FALSE), GitCmd("push", accepted) >>,
        staged |-> tree, head |-> hd, remote |-> rem, ok |-> accepted]
  ELSE IF ~accepted
  THEN [cmds |-> << GitCmd("add", TRUE), GitCmd("commit", TRUE), GitCmd("push", FALSE) >>,
        staged |-> tree, head |-> tree, remote |-> rem, ok |-> FALSE]
  ELSE [cmds |-> << GitCmd("add", TRUE), GitCmd("commit", TRUE), GitCmd("push", TRUE) >>,
        staged |-> tree, head |-> tree, remote |-> tree, ok |-> TRUE]

GitRunResetOnReject(tree, hd, rem, accepted) ==
  IF tree = hd
  THEN [cmds |-> << GitCmd("add", TRUE), GitCmd("commit", FALSE) >>,
        staged |-> tree, head |-> hd, remote |-> rem, ok |-> FALSE]
  ELSE IF ~accepted
  THEN [cmds |-> << GitCmd("add", TRUE), GitCmd("commit", TRUE), GitCmd("push", FALSE) >>,
        staged |-> tree, head |-> hd, remote |-> rem, ok |-> FALSE]
  ELSE [cmds |-> << GitCmd("add", TRUE), GitCmd("commit", TRUE), GitCmd("push", TRUE) >>,
        staged |-> tree, head |-> tree, remote |-> tree, ok |-> TRUE]

\* commit_and_push on working tree 'tree', HEAD 'hd' and remote 'rem':
\* git add '.' stages the tree; git commit raises when the staged tree is
\* HEAD's (nothing to commit), and nothing after it runs; git push raises
\* when the remote rejects it, after the commit was made.
GitRun(tree, hd, rem, accepted) ==
  IF tree = hd
  THEN [cmds |-> << GitCmd("add", TRUE), GitCmd("commit", FALSE) >>,
        staged |-> tree, head |-> hd, remote |-> rem, ok |-> FALSE]
  ELSE IF ~accepted
  THEN [cmds |-> << GitCmd("add", TRUE), GitCmd("commit", TRUE), GitCmd("push", FALSE) >>,
        staged |-> tree, head |-> tree, remote |-> rem, ok |-> FALSE]
  ELSE [cmds |-> << GitCmd("add", TRUE), GitCmd("commit", TRUE), GitCmd("push", TRUE) >>,
        staged |-> tree, head |-> tree, remote |-> tree, ok |-> TRUE]

\* strftime('%Y-%m-%d')
StrftimeDashed(d) ==
  LET s == Strftime(d)
  IN  SubSeq(s, 1, 4) \o << "-" >> \o SubSeq(s, 5, 6) \o << "-" >> \o SubSeq(s, 7, 8)

\* commit_msg
CommitMessage(verb, today) == verb \o << " ","d","a","i","l","y"," ","c","o","n","t","e","n","t",":"," " >> \o StrftimeDashed(today)

\* --------------------------------------------------------- get_tech_news
Returned(list) == [state |-> "returned", value |-> list, error |-> ""]

Raised(error) == [state |-> "raised", value |-> << >>, error |-> error]

FirstN(list, n) == SubSeq(list, 1, IF Len(list) < n THEN Len(list) ELSE n)

get_tech_news_unsliced(resp) ==
  IF resp.net # "ok" THEN Raised("ConnectionError")
  ELSE IF resp.body = "notjson" THEN Raised("JSONDecodeError")
  ELSE IF resp.body = "array" THEN Raised("AttributeError")
  ELSE IF resp.articles = "missing" THEN Returned(<< >>)
  ELSE IF resp.articles = "null" THEN Raised("TypeError")
  ELSE Returned(resp.list)

\* requests.get raises only when the request itself fails; the status code
\* is never looked at. response.json() raises on a body that is not JSON,
\* .get on a JSON array, [:5] on a null 'articles'; a JSON object without
\* 'articles' yields [].
get_tech_news(resp) ==
  IF resp.net # "ok" THEN Raised("ConnectionError")
  ELSE IF resp.body = "notjson" THEN Raised("JSONDecodeError")
  ELSE IF resp.body = "array" THEN Raised("AttributeError")
  ELSE IF resp.articles = "missing" THEN Returned(<< >>)
  ELSE IF resp.articles = "null" THEN Raised("TypeError")
  ELSE Returned(FirstN(resp.list, NewsLimit))


\* ------------------------------------------------------------------ state
VARIABLES
  entry,       \* what was called: "main", or the method called on its own
  hasWriter,   \* whether the object has a write_index_page (the class has none)
  pc,          \* the step to call next, "done", or "failed"
  calls,       \* the methods called, in order
  failure,     \* the uncaught error that ended the run: [step, error, line]
  dir,         \* the output directory: its files
  dir0,        \* the output directory as it was last committed and pushed
  new_page,    \* the filename create_new_page returned
  choice,      \* create_new_page's page_type and topic, and the date
  styleColor,  \* the accent colour update_styles wrote, "" when it wrote none
  articles,    \* update_index's list 'articles' once sorted (line 66)
  indexArg,    \* the list update_index handed to write_index_page
  indexCalled, \* whether write_index_page was called
  head,        \* git: the tree of the last commit
  staged,      \* git: the staged tree
  remote,      \* git: the tree of origin/main
  gitCalls,    \* the git commands commit_and_push ran, with their outcome
  commitMsg,   \* the message of the commit made, << >> when none
  newsResp,    \* the headlines response get_tech_news meets
  newsResult   \* what get_tech_news returned or raised

vars ==
  << entry, hasWriter, pc, calls, failure, dir, dir0, new_page, choice,
     styleColor, articles, indexArg, indexCalled, head, staged, remote,
     gitCalls, commitMsg, newsResp, newsResult >>

MainSeqIndexFirst ==
  << "create_new_page", "update_index", "update_styles", "commit_and_push" >>

\* main(): the calls it makes, in order.
MainSeq ==
  << "create_new_page", "update_styles", "update_index", "commit_and_push" >>

\* Where main() stands once 'step' has returned.
After(step) ==
  LET i == IndexIn(step, MainSeq)
  IN  IF i = Len(MainSeq) THEN "done" ELSE MainSeq[i + 1]

\* ----------------------------------------------------------------- inputs
\* The dates of the articles already in the directory: 25 December 2023
\* onwards, one per day, across the turn of the year.
DateOf(i) ==
  IF i <= 7 THEN [y |-> 2023, m |-> 12, d |-> 24 + i]
            ELSE [y |-> 2024, m |-> 1, d |-> i - 7]

\* What generate_article may return: plain text, or text with markup of its
\* own (the template embeds it as it comes).
PlainContent == << Elem("p", "", FALSE, << >>, << >>, << >>) >>

MarkupContent == << H1(<< "X" >>), Meta("description", << "X" >>) >>

ContentSet == {PlainContent, MarkupContent}

\* The i-th article an earlier run left in the directory.
PoolType(i) == PageTypes[((i - 1) % 5) + 1]

PoolTopic(i) == Topics[((2 * i) % 5) + 1]

PoolFile(i) ==
  File(FileName(PoolType(i), PoolTopic(i), DateOf(i)),
       PageBody(PlainContent, TitleCase(PoolType(i)), PoolTopic(i)))

\* The dates the clock is read at: the day of the 12th article, or a day
\* after all of them.
TodaySet == {DateOf(12), [y |-> 2024, m |-> 2, d |-> 1]}

LaterDate == [y |-> 2024, m |-> 3, d |-> 1]

DirKinds ==
  {"plain", "reversed", "static_index", "listing_index", "style",
   "about", "tie", "nometa", "noh1", "nocontent", "index_nometa"}

\* A page somebody wrote by hand, with a heading and a description.
StaticBody == << Meta("description", << "X" >>), H1(<< "X" >>) >>

BadBody(kind) ==
  IF kind = "nometa" THEN << H1(<< "X" >>) >>
  ELSE IF kind = "noh1" THEN << Meta("description", << "X" >>) >>
  ELSE << H1(<< "X" >>), Elem("meta", "description", FALSE, << >>, << >>, << >>) >>

\* A directory with n articles of earlier runs and, by kind, one more file.
InitialDir(n, kind) ==
  LET pool == [i \in 1..n |-> PoolFile(i)]
  IN  CASE kind = "plain" -> pool
        [] kind = "reversed" -> Reverse(pool)
        [] kind = "static_index" -> << File(IndexName, StaticBody) >> \o pool
        [] kind = "listing_index" ->
             Append(pool, File(IndexName,
                      IndexBody(Truncate(SortByDateDesc(
                        [i \in 1..n |-> ParseArticle(pool[i]).entry])))))
        [] kind = "style" -> Append(pool, StyleFile(Colors[1]))
        [] kind = "about" ->
             Append(pool, File(<< "a","b","o","u","t" >> \o DotHtml, StaticBody))
        [] kind = "tie" ->
             Append(pool, File(FileName(PageTypes[4], Topics[1], DateOf(1)),
                               PageBody(PlainContent, TitleCase(PageTypes[4]), Topics[1])))
        [] kind = "index_nometa" ->
             << File(IndexName, StaticBody) >>
               \o Append(pool, File(FileName(PageTypes[1], Topics[1], LaterDate),
                                    BadBody("nometa")))
        [] OTHER ->
             Append(pool, File(FileName(PageTypes[1], Topics[1], LaterDate), BadBody(kind)))

\* The numbers of articles the directory starts with.
FileCounts == 0..MaxFiles

\* The colours random.choice(colors) is explored over.
ColorChoices == {Colors[i] : i \in 1..MaxColors}

\* The verbs random.choice(commit_types) is explored over.
VerbChoices == {CommitTypes[i] : i \in 1..MaxVerbs}

NoChoice == [page_type |-> << >>, topic |-> << >>, today |-> [y |-> 0, m |-> 0, d |-> 0]]

NoFailure == [step |-> "", error |-> "", line |-> 0]

NoResponse == [net |-> "", status |-> 0, body |-> "", articles |-> "", list |-> << >>]

NotCalled == [state |-> "none", value |-> << >>, error |-> ""]

\* The state in which 'what' (main, or one method on its own) is called:
\* the directory is d, and d0 is what was last committed and pushed.
Start(what, d0, d) ==
  /\ entry = what
  /\ pc = IF what = "main" THEN MainSeq[1] ELSE what
  /\ calls = << >>
  /\ failure = NoFailure
  /\ dir = d
  /\ dir0 = d0
  /\ new_page = << >>
  /\ choice = NoChoice
  /\ styleColor = ""
  /\ articles = << >>
  /\ indexArg = << >>
  /\ indexCalled = FALSE
  /\ head = WorkTree(d0)
  /\ staged = WorkTree(d0)
  /\ remote = WorkTree(d0)
  /\ gitCalls = << >>
  /\ commitMsg = << >>

\* main() as shipped, on a clean working tree: the object is a
\* TechNewsAutomator, which has no write_index_page.
Init ==
  /\ \E n \in FileCounts, kind \in DirKinds :
       Start("main", InitialDir(n, kind), InitialDir(n, kind))
  /\ hasWriter = FALSE
  /\ newsResp = NoResponse
  /\ newsResult = NotCalled

\* ---------------------------------------------------------------- actions
\* 'step' raises: nothing catches it, the run ends there.
Fail(step, error, line) ==
  /\ pc' = "failed"
  /\ calls' = Append(calls, step)
  /\ failure' = [step |-> step, error |-> error, line |-> line]

\* 'step' returns: main() goes on to its next call.
Return(step) ==
  /\ pc' = IF entry = "main" THEN After(step) ELSE "done"
  /\ calls' = Append(calls, step)
  /\ failure' = failure

\* create_new_page: generate_article raises (nothing is written), or the
\* page is written under the filename built from the choices and the date.
CreateNewPage ==
  /\ pc = "create_new_page"
  /\ \/ /\ Fail("create_new_page", "APIError", 30)
        /\ UNCHANGED << dir, new_page, choice >>
     \/ \E page_type \in Range(PageTypes), topic \in Range(Topics),
           today \in TodaySet, content \in ContentSet :
          LET filename == FileName(page_type, topic, today)
          IN  /\ dir' = write_page(dir, filename, content, TitleCase(page_type), topic)
              /\ new_page' = filename
              /\ choice' = [page_type |-> page_type, topic |-> topic, today |-> today]
              /\ Return("create_new_page")
  /\ UNCHANGED << entry, hasWriter, dir0, styleColor, articles, indexArg, indexCalled,
                  head, staged, remote, gitCalls, commitMsg, newsResp, newsResult >>

\* update_styles: random.random() < 0.2 or not; when it is, style.css is
\* overwritten with the template in one of the colours.
UpdateStyles ==
  /\ pc = "update_styles"
  /\ \/ UNCHANGED << dir, styleColor >>
     \/ \E color \in ColorChoices :
          /\ dir' = WriteFile(dir, StyleFile(color))
          /\ styleColor' = color
  /\ Return("update_styles")
  /\ UNCHANGED << entry, hasWriter, dir0, new_page, choice, articles, indexArg,
                  indexCalled, head, staged, remote, gitCalls, commitMsg,
                  newsResp, newsResult >>

\* update_index: the loop over the globbed files, the sort, and line 67.
\* There the attribute write_index_page is looked up before its argument is
\* built: the class does not define it, so on a TechNewsAutomator the call
\* raises AttributeError, nothing is handed on and no index page is written.
\* Only on an object that was given a write_index_page is the list
\* truncated and handed on.
UpdateIndex ==
  /\ pc = "update_index"
  /\ \E r \in ParseAll(SelectSeq(dir, Qualifies)) :
       IF r.err # "none"
       THEN /\ Fail("update_index", r.err, r.line)
            /\ UNCHANGED << dir, articles, indexArg, indexCalled >>
       ELSE \E sorted \in TieOrders(SortByDateDesc(r.entries)) :
              /\ articles' = sorted
              /\ IF ~hasWriter
                 THEN /\ Fail("update_index", "AttributeError", 67)
                      /\ UNCHANGED << dir, indexArg, indexCalled >>
                 ELSE /\ indexArg' = Truncate(sorted)
                      /\ indexCalled' = TRUE
                      /\ dir' = write_index_page(dir, Truncate(sorted))
                      /\ Return("update_index")
  /\ UNCHANGED << entry, hasWriter, dir0, new_page, choice, styleColor,
                  head, staged, remote, gitCalls, commitMsg, newsResp, newsResult >>

\* commit_and_push: add, commit with the message built from a verb and the
\* date the clock shows then, push; the remote accepts the push or rejects
\* it.
CommitAndPush ==
  /\ pc = "commit_and_push"
  /\ \E accepted \in BOOLEAN, verb \in VerbChoices, now \in TodaySet :
       LET g == GitRun(WorkTree(dir), head, remote, accepted)
       IN  /\ gitCalls' = g.cmds
           /\ commitMsg' = IF g.cmds[2].ok THEN CommitMessage(verb, now)
                                           ELSE commitMsg
           /\ staged' = g.staged
           /\ head' = g.head
           /\ remote' = g.remote
           /\ IF g.ok THEN Return("commit_and_push")
                      ELSE Fail("commit_and_push", "GitCommandError",
                                IF g.cmds[2].ok THEN 176 ELSE 175)
  /\ UNCHANGED << entry, hasWriter, dir, dir0, new_page, choice, styleColor,
                  articles, indexArg, indexCalled, newsResp, newsResult >>

\* main() as shipped never gets past update_index, so its call of
\* commit_and_push (line 192) is not a step any run takes.
Next == CreateNewPage \/ UpdateStyles \/ UpdateIndex

Spec == Init /\ [][Next]_vars

\* update_index called on its own, on an object that was given a
\* write_index_page, for every directory of the family.
InitIndex ==
  /\ \E n \in FileCounts, kind \in DirKinds :
       Start("update_index", InitialDir(n, kind), InitialDir(n, kind))
  /\ hasWriter = TRUE
  /\ newsResp = NoResponse
  /\ newsResult = NotCalled

NextIndex == UpdateIndex

SpecIndex == InitIndex /\ [][NextIndex]_vars

\* The numbers of articles the directory starts with in SpecRun.
RunCounts == {0, 1, MaxFiles}

\* main() on a clean working tree, on a TechNewsAutomator as shipped or on
\* one that was given a write_index_page: with the latter the run goes on
\* from update_index to commit_and_push (line 192).
InitRun ==
  /\ \E n \in RunCounts, kind \in DirKinds :
       Start("main", InitialDir(n, kind), InitialDir(n, kind))
  /\ hasWriter \in BOOLEAN
  /\ newsResp = NoResponse
  /\ newsResult = NotCalled

NextRun == CreateNewPage \/ UpdateStyles \/ UpdateIndex \/ CommitAndPush

SpecRun == InitRun /\ [][NextRun]_vars

\* commit_and_push called on its own: the directory holds n articles, of
\* which the first m were committed and pushed (m = n: a clean tree; m < n:
\* pages written by runs that never got to commit).
InitPublish ==
  /\ \E n \in FileCounts, m \in FileCounts, kind \in DirKinds :
       /\ m <= n
       /\ Start("commit_and_push", InitialDir(m, kind), InitialDir(n, kind))
  /\ hasWriter = FALSE
  /\ newsResp = NoResponse
  /\ newsResult = NotCalled

NextPublish == CommitAndPush

SpecPublish == InitPublish /\ [][NextPublish]_vars

\* get_tech_news, called on its own: main() never calls it.
NewsResponses ==
  {[net |-> "fail", status |-> 0, body |-> "", articles |-> "", list |-> << >>]}
  \cup
  {[net |-> "ok", status |-> s, body |-> b, articles |-> a, list |-> << >>] :
     s \in {200, 401, 500}, b \in {"notjson", "array"}, a \in {""}}
  \cup
  {[net |-> "ok", status |-> s, body |-> "object", articles |-> a, list |-> << >>] :
     s \in {200, 401, 500}, a \in {"missing", "null"}}
  \cup
  UNION {{[net |-> "ok", status |-> s, body |-> "object", articles |-> "list", list |-> l] :
            s \in {200, 401, 500}, l \in [1..n -> {"a", "b"}]} : n \in 0..MaxArticles}

InitNews ==
  /\ Start("get_tech_news", << >>, << >>)
  /\ hasWriter = FALSE
  /\ newsResp \in NewsResponses
  /\ newsResult = NotCalled

GetTechNews ==
  /\ pc = "get_tech_news"
  /\ newsResult' = get_tech_news(newsResp)
  /\ IF get_tech_news(newsResp).state = "raised"
     THEN Fail("get_tech_news", get_tech_news(newsResp).error,
               IF newsResp.net # "ok" THEN 22 ELSE 23)
     ELSE Return("get_tech_news")
  /\ UNCHANGED << entry, hasWriter, dir, dir0, new_page, choice,
                  styleColor, articles, indexArg, indexCalled, head, staged,
                  remote, gitCalls, commitMsg, newsResp >>

NextNews == GetTechNews

SpecNews == InitNews /\ [][NextNews]_vars

\* ================================================================= claims
ExpectedOrder ==
  << "create_new_page", "update_styles", "update_index", "commit_and_push" >>

Called(step) == \E i \in DOMAIN calls : calls[i] = step

\* The files of directory d that update_index is to list: named *.html and
\* not index.html.
Pages(d) ==
  {f \in Range(d) : /\ Len(f.name) >= 5
                    /\ SubSeq(f.name, Len(f.name) - 4, Len(f.name)) = << ".","h","t","m","l" >>
                    /\ f.name # << "i","n","d","e","x",".","h","t","m","l" >>}

HasIndex(d) == \E f \in Range(d) : f.name = << "i","n","d","e","x",".","h","t","m","l" >>

IndexOf(d) == CHOOSE f \in Range(d) : f.name = << "i","n","d","e","x",".","h","t","m","l" >>

DigitVal(c) == (CHOOSE i \in 1..10 : Digits[i] = c) - 1

AllDigits(t) == \A i \in DOMAIN t : \E k \in 1..10 : Digits[k] = t[i]

\* The number an 8-digit token denotes; among 8-digit tokens the lexical
\* order is the order of these numbers.
Num8(t) ==
  DigitVal(t[1]) * 10000000 + DigitVal(t[2]) * 1000000 + DigitVal(t[3]) * 100000
  + DigitVal(t[4]) * 10000 + DigitVal(t[5]) * 1000 + DigitVal(t[6]) * 100
  + DigitVal(t[7]) * 10 + DigitVal(t[8])

\* A filename that ends in -DDDDDDDD.html, and its date token.
HasDate8(name) ==
  /\ Len(name) >= 14
  /\ name[Len(name) - 13] = "-"
  /\ AllDigits(SubSeq(name, Len(name) - 12, Len(name) - 5))

Token8(name) == SubSeq(name, Len(name) - 12, Len(name) - 5)

FirstH1Text(body) ==
  LET i == CHOOSE k \in DOMAIN body :
             body[k].tag = "h1" /\ \A j \in 1..(k-1) : body[j].tag # "h1"
  IN  body[i].text

FirstDescriptionContent(body) ==
  LET i == CHOOSE k \in DOMAIN body :
             /\ body[k].tag = "meta" /\ body[k].name = "description"
             /\ \A j \in 1..(k-1) : ~(body[j].tag = "meta" /\ body[j].name = "description")
  IN  body[i].content

\* ---------------------------------------------------------------------
\* C1: in every run of main() the calls are a prefix of create_new_page,
\* update_styles, update_index, commit_and_push: a step is called only when
\* the one before it has returned, none is called twice, a run that is done
\* made all four, and get_tech_news is never called by the run. (As
\* shipped the run ends in update_index at the latest.)
C1_StepOrder ==
  /\ Len(calls) <= 4
  /\ \A i \in DOMAIN calls : calls[i] = ExpectedOrder[i]
  /\ pc = "done" => Len(calls) = 4
  /\ pc \notin {"done", "failed"} => pc = ExpectedOrder[Len(calls) + 1]
  /\ pc = "failed" => Len(calls) >= 1 /\ failure.step = calls[Len(calls)]
  /\ ~Called("get_tech_news")
  /\ newsResult.state = "none"

C1_Witness ==
  /\ pc = "failed"
  /\ calls = << "create_new_page", "update_styles", "update_index" >>
  /\ failure.line = 67

\* ---------------------------------------------------------------------
\* C2: whatever the directory holds, the list update_index hands to
\* write_index_page, on an object that has one, has at most 10 entries (and
\* so has the index page).
C2_AtMostTen ==
  /\ Len(indexArg) <= 10
  /\ indexCalled => Len(IndexOf(dir).body) <= 10

C2_Witness ==
  /\ indexCalled
  /\ Cardinality(Pages(dir)) > 10
  /\ Len(articles) > 10
  /\ Len(indexArg) = 10

\* ---------------------------------------------------------------------
\* C3: when the directory holds exactly 15 article files, each valid and
\* named ...-DDDDDDDD.html with pairwise distinct date tokens, update_index
\* lists exactly 10 of them, by date token strictly descending, and every
\* one of the 5 files it leaves out has a smaller token than every file it
\* lists.
FifteenDistinct ==
  /\ Cardinality(Pages(dir)) = 15
  /\ \A f \in Pages(dir) :
       /\ HasDate8(f.name)
       /\ \E k \in DOMAIN f.body : f.body[k].tag = "h1"
       /\ \E k \in DOMAIN f.body :
            f.body[k].tag = "meta" /\ f.body[k].name = "description" /\ f.body[k].hasContent
  /\ \A f, g \in Pages(dir) : f.name # g.name => Token8(f.name) # Token8(g.name)

C3_TopTenDescending ==
  (Called("update_index") /\ FifteenDistinct) =>
    LET listed == {indexArg[i].file : i \in DOMAIN indexArg}
        names == {f.name : f \in Pages(dir)}
    IN  /\ indexCalled
        /\ Len(indexArg) = 10
        /\ listed \subseteq names
        /\ Cardinality(listed) = 10
        /\ Cardinality(names \ listed) = 5
        /\ \A i \in DOMAIN indexArg : indexArg[i].date = Token8(indexArg[i].file)
        /\ \A i \in 1..9 :
             Num8(Token8(indexArg[i].file)) > Num8(Token8(indexArg[i + 1].file))
        /\ \A a \in names \ listed : \A b \in listed :
             Num8(Token8(a)) < Num8(Token8(b))

\* ---------------------------------------------------------------------
\* C4: no entry update_index collects is the file index.html, also when
\* index.html is in the directory it scans; what it lists or hands on is
\* taken from what it collected.
C4_IndexExcluded ==
  /\ \A i \in DOMAIN articles : articles[i].file # << "i","n","d","e","x",".","h","t","m","l" >>
  /\ \A i \in DOMAIN indexArg : indexArg[i].file # << "i","n","d","e","x",".","h","t","m","l" >>

C4_Witness ==
  /\ Called("update_index")
  /\ failure.line = 67
  /\ HasIndex(dir0)
  /\ \E k \in DOMAIN IndexOf(dir0).body : IndexOf(dir0).body[k].tag = "h1"
  /\ Len(articles) > 0

\* ---------------------------------------------------------------------
\* C5: when update_index is called on a directory in which some *.html
\* file other than index.html has no description meta tag, or no <h1>, the
\* run fails in update_index, inside the loop (line 57 or 58): the sort is
\* not reached, so no list is made of the other files, write_index_page is
\* not reached, the index page is as it was, and commit_and_push is not
\* called.
LacksTag(f) ==
  \/ ~\E k \in DOMAIN f.body : f.body[k].tag = "h1"
  \/ ~\E k \in DOMAIN f.body : f.body[k].tag = "meta" /\ f.body[k].name = "description"

C5_BadPageFailsRun ==
  (Called("update_index") /\ \E f \in Pages(dir) : LacksTag(f)) =>
    /\ pc = "failed"
    /\ failure.step = "update_index"
    /\ failure.error \in {"AttributeError", "TypeError"}
    /\ failure.line \in {57, 58}
    /\ articles = << >>
    /\ ~indexCalled
    /\ indexArg = << >>
    /\ HasIndex(dir) = HasIndex(dir0)
    /\ HasIndex(dir) => IndexOf(dir) = IndexOf(dir0)
    /\ ~Called("commit_and_push")
    /\ gitCalls = << >>
    /\ head = WorkTree(dir0)

C5_Witness ==
  /\ pc = "failed"
  /\ failure.step = "update_index"
  /\ failure.error = "TypeError"
  /\ HasIndex(dir)
  /\ Cardinality(Pages(dir)) > 10
  /\ \E f \in Pages(dir) : LacksTag(f)

\* ---------------------------------------------------------------------
\* C6: from an empty directory, create_new_page leaves exactly one .html
\* file, the one it returns; update_index then lists exactly one entry,
\* that file, its title the text of the page's first <h1> ("{topic}
\* {Type}") and its summary the content of the page's description meta
\* ("Latest {Type} about {topic} in tech"); and commit_and_push's commit
\* succeeds.
Capitalised(page_type) ==
  CASE page_type = << "t","u","t","o","r","i","a","l" >> -> << "T","u","t","o","r","i","a","l" >>
    [] page_type = << "n","e","w","s" >> -> << "N","e","w","s" >>
    [] page_type = << "a","n","a","l","y","s","i","s" >> -> << "A","n","a","l","y","s","i","s" >>
    [] page_type = << "r","e","v","i","e","w" >> -> << "R","e","v","i","e","w" >>
    [] page_type = << "c","o","m","p","a","r","i","s","o","n" >> -> << "C","o","m","p","a","r","i","s","o","n" >>

C6_EmptyToOne ==
  dir0 = << >> =>
    /\ new_page # << >> =>
         /\ Cardinality(Pages(dir)) = 1
         /\ \A f \in Pages(dir) : f.name = new_page
    /\ Called("update_index") =>
         LET page == CHOOSE f \in Range(dir) : f.name = new_page
         IN  /\ indexCalled
             /\ Len(indexArg) = 1
             /\ indexArg[1].file = new_page
             /\ indexArg[1].title = FirstH1Text(page.body)
             /\ indexArg[1].title = choice.topic \o << " " >> \o Capitalised(choice.page_type)
             /\ indexArg[1].summary = FirstDescriptionContent(page.body)
             /\ indexArg[1].summary =
                  << "L","a","t","e","s","t"," " >> \o Capitalised(choice.page_type)
                    \o << " ","a","b","o","u","t"," " >> \o choice.topic \o << " ","i","n"," ","t","e","c","h" >>
             /\ Len(IndexOf(dir).body) = 1
             /\ IndexOf(dir).body[1].href = new_page
    /\ Called("commit_and_push") =>
         /\ Len(gitCalls) >= 2
         /\ gitCalls[2] = [cmd |-> "commit", ok |-> TRUE]
         /\ \E f \in head : f.name = new_page

\* ---------------------------------------------------------------------
\* C7: the filename create_new_page returns, and writes, is the page type,
\* '-', the topic in lower case with '-' for each space, '-', the date as
\* the 8 digits YYYYMMDD, and '.html'.
ExpectedSlug(topic) ==
  CASE topic = << "A","I" >> -> << "a","i" >>
    [] topic = << "C","y","b","e","r","s","e","c","u","r","i","t","y" >> -> << "c","y","b","e","r","s","e","c","u","r","i","t","y" >>
    [] topic = << "C","l","o","u","d"," ","C","o","m","p","u","t","i","n","g" >> -> << "c","l","o","u","d","-","c","o","m","p","u","t","i","n","g" >>
    [] topic = << "M","o","b","i","l","e"," ","T","e","c","h" >> -> << "m","o","b","i","l","e","-","t","e","c","h" >>
    [] topic = << "G","a","m","i","n","g" >> -> << "g","a","m","i","n","g" >>

C7_Filename ==
  new_page # << >> =>
    LET t == choice.page_type
        s == ExpectedSlug(choice.topic)
        n == Len(new_page)
        date == SubSeq(new_page, Len(t) + Len(s) + 3, Len(t) + Len(s) + 10)
    IN  /\ t \in {<< "t","u","t","o","r","i","a","l" >>, << "n","e","w","s" >>, << "a","n","a","l","y","s","i","s" >>, << "r","e","v","i","e","w" >>, << "c","o","m","p","a","r","i","s","o","n" >>}
        /\ n = Len(t) + Len(s) + 15
        /\ SubSeq(new_page, 1, Len(t)) = t
        /\ new_page[Len(t) + 1] = "-"
        /\ SubSeq(new_page, Len(t) + 2, Len(t) + Len(s) + 1) = s
        /\ new_page[Len(t) + Len(s) + 2] = "-"
        /\ AllDigits(date)
        /\ Num8(date) = choice.today.y * 10000 + choice.today.m * 100 + choice.today.d
        /\ SubSeq(new_page, n - 4, n) = << ".","h","t","m","l" >>
        /\ \E f \in Range(dir) : f.name = new_page

C7_Witness ==
  /\ new_page # << >>
  /\ choice.topic = << "C","l","o","u","d"," ","C","o","m","p","u","t","i","n","g" >>
  /\ choice.page_type = << "c","o","m","p","a","r","i","s","o","n" >>
  /\ choice.today.m = 1

\* ---------------------------------------------------------------------
\* C8: when a step of main() raises after create_new_page wrote its page,
\* the run ends there: the failing step is the last one called and no step
\* or git command ran twice (no retry); the page, and the stylesheet if
\* update_styles wrote it, are on disk as written (no rollback); unless the
\* commit was made, HEAD and the remote are the ones the run started with,
\* so what the run wrote is uncommitted; and when the push failed after the
\* commit succeeded, HEAD has the commit with the page and the remote has
\* not. Checked for main() as shipped, where the failing step is
\* update_index at the latest, and for main() on an object with a
\* write_index_page, where commit_and_push is reached.
CommitMade == \E i \in DOMAIN gitCalls : gitCalls[i] = [cmd |-> "commit", ok |-> TRUE]

C8_NoRollbackNoRetry ==
  (failure.step # "" /\ new_page # << >>) =>
    /\ pc = "failed"
    /\ failure.step = calls[Len(calls)]
    /\ \A i, j \in DOMAIN calls : calls[i] = calls[j] => i = j
    /\ \A i, j \in DOMAIN gitCalls : gitCalls[i].cmd = gitCalls[j].cmd => i = j
    /\ failure.step # "commit_and_push" =>
         /\ ~Called("commit_and_push")
         /\ gitCalls = << >>
         /\ staged = WorkTree(dir0)
    /\ ~hasWriter => failure.step # "commit_and_push"
    /\ \E f \in Range(dir) :
         /\ f.name = new_page
         /\ FirstH1Text(f.body) = choice.topic \o << " " >> \o Capitalised(choice.page_type)
    /\ styleColor # "" =>
         \E f \in Range(dir) : f.name = << "s","t","y","l","e",".","c","s","s" >> /\ f.body[1].name = styleColor
    /\ ~CommitMade =>
         /\ head = WorkTree(dir0)
         /\ remote = WorkTree(dir0)
         /\ commitMsg = << >>
    /\ CommitMade =>
         /\ failure.step = "commit_and_push"
         /\ gitCalls = << [cmd |-> "add", ok |-> TRUE], [cmd |-> "commit", ok |-> TRUE],
                           [cmd |-> "push", ok |-> FALSE] >>
         /\ head = WorkTree(dir)
         /\ \E f \in head : f.name = new_page
         /\ remote = WorkTree(dir0)
         /\ head # remote

C8_Witness ==
  /\ pc = "failed"
  /\ failure.step = "commit_and_push"
  /\ new_page # << >>
  /\ styleColor # ""
  /\ CommitMade
  /\ gitCalls[3] = [cmd |-> "push", ok |-> FALSE]
  /\ head # remote

\* ---------------------------------------------------------------------
\* C9: commit_and_push runs add, commit, push in that order, each at most
\* once; when the staged tree is HEAD's the commit fails, the run fails and
\* no push is made; when the commit succeeds and the push is rejected the
\* run fails with the commit in HEAD as made (no retry, no rebase) and the
\* remote as it was.
C9_AddCommitPush ==
  /\ Len(gitCalls) <= 3
  /\ \A i \in DOMAIN gitCalls : gitCalls[i].cmd = << "add", "commit", "push" >>[i]
  /\ Called("commit_and_push") =>
       /\ Len(gitCalls) >= 2
       /\ gitCalls[1].ok
       /\ staged = WorkTree(dir)
       /\ gitCalls[2].ok = (WorkTree(dir) # WorkTree(dir0))
       /\ ~gitCalls[2].ok =>
            /\ Len(gitCalls) = 2
            /\ pc = "failed"
            /\ failure.step = "commit_and_push"
            /\ head = WorkTree(dir0)
            /\ remote = WorkTree(dir0)
       /\ gitCalls[2].ok =>
            /\ Len(gitCalls) = 3
            /\ head = WorkTree(dir)
            /\ gitCalls[3].ok => pc = "done" /\ remote = head
            /\ ~gitCalls[3].ok =>
                 /\ pc = "failed"
                 /\ failure.step = "commit_and_push"
                 /\ remote = WorkTree(dir0)

C9_Witness ==
  /\ pc = "failed"
  /\ gitCalls = << [cmd |-> "add", ok |-> TRUE], [cmd |-> "commit", ok |-> FALSE] >>
  /\ dir # << >>

\* ---------------------------------------------------------------------
\* C10 as stated: get_tech_news returns at most 5 articles, the first 5 of
\* the response's array in order, and fails with an error on any network
\* failure and on any response whose status is not 2xx.
C10_AsStated ==
  newsResult.state # "none" =>
    /\ Len(newsResult.value) <= 5
    /\ newsResult.state = "returned" /\ newsResp.articles = "list" =>
         /\ Len(newsResult.value) = (IF Len(newsResp.list) < 5 THEN Len(newsResp.list) ELSE 5)
         /\ \A i \in DOMAIN newsResult.value : newsResult.value[i] = newsResp.list[i]
    /\ (newsResp.net # "ok" \/ newsResp.status < 200 \/ newsResp.status > 299) =>
         newsResult.state = "raised"

\* C10 as amended: get_tech_news returns at most 5 articles, the first 5 of
\* the response's array in order ([] when the JSON object has no
\* 'articles'); it fails with an error on a network failure, on a body that
\* is not JSON, on a JSON body that is not an object, and on an 'articles'
\* that is null, and in no other case; the status code plays no part: a
\* non-2xx response returns a list or fails exactly as a 2xx response with
\* the same body does.
C10_StatusIgnored ==
  newsResult.state # "none" =>
    /\ Len(newsResult.value) <= 5
    /\ newsResult.state = "returned" /\ newsResp.articles = "list" =>
         /\ Len(newsResult.value) = (IF Len(newsResp.list) < 5 THEN Len(newsResp.list) ELSE 5)
         /\ \A i \in DOMAIN newsResult.value : newsResult.value[i] = newsResp.list[i]
    /\ newsResult.state = "returned" /\ newsResp.articles = "missing" =>
         newsResult.value = << >>
    /\ newsResult.state = "raised" <=>
         \/ newsResp.net # "ok"
         \/ newsResp.body = "notjson"
         \/ newsResp.body = "array"
         \/ newsResp.body = "object" /\ newsResp.articles = "null"
    /\ newsResult.state = "returned" <=>
         /\ newsResp.net = "ok"
         /\ newsResp.body = "object"
         /\ newsResp.articles \in {"list", "missing"}
    /\ newsResp.net # "ok" => newsResult.error = "ConnectionError"
    /\ newsResp.net = "ok" /\ newsResp.body = "object" /\ newsResp.articles = "null" =>
         newsResult.error = "TypeError"

C10_Witness ==
  /\ newsResult.state = "returned"
  /\ newsResp.status = 401
  /\ Len(newsResp.list) > 5
  /\ Len(newsResult.value) = 5

====
